---- MODULE Spec2Model ----
(***************************************************************************)
(* A model of the bf-interpreter repository.                               *)
(*                                                                         *)
(*   parser.rs       Lexer (bytes -> Op tokens) and Parser::parse_all      *)
(*                   (tokens -> collapsed, jump-resolved Vec<Cmd>)         *)
(*   interpreter.rs  Interpreter::run_all, which executes a Vec<Cmd>       *)
(*   main.rs         BFInterpreter, which executes the raw token list      *)
(*                   one token at a time                                   *)
(*                                                                         *)
(* Indices and operands keep their Rust (0-based) values; a TLA+ sequence  *)
(* s holds the Rust element s[i] at position i + 1.                        *)
(***************************************************************************)
EXTENDS Integers, Sequences, FiniteSets, TLC

VARIABLES
    file,         \* the bytes of the source file (never changes)
    raw,          \* Lexer.raw: the bytes not yet read
    curr,         \* parse_all: curr
    cmds,         \* parse_all: cmds; run_all: cmds
    jmp_stack,    \* parse_all: jmp_stack
    p_pc,         \* parse_all: "idle", "new", "loop" or "returned"
    result,       \* parse_all: the returned Result
    mem,          \* Interpreter.mem, as the map of its non-zero cells
    mem_ptr,      \* run_all: mem_ptr
    instr_ptr,    \* run_all: instr_ptr
    stdin,        \* run_all: the characters waiting on standard input
    stdout,       \* run_all: the bytes printed so far
    r_pc,         \* run_all: "idle", "running", "done" or "panic"
    code,         \* BFInterpreter::run: code
    memory,       \* BFInterpreter::run: memory, as the map of its non-zero cells
    memptr,       \* BFInterpreter::run: memptr
    bf_instr_ptr, \* BFInterpreter::run: instr_ptr
    loopstack,    \* BFInterpreter::run: loopstack
    istream,      \* BFInterpreter.istream: the bytes not yet read
    ostream,      \* BFInterpreter.ostream: the bytes written so far
    bf_pc,        \* BFInterpreter::run: "idle", "running", "done" or "panic"
    execs         \* how often each instruction index has been executed by the running interpreter

parserVars == <<raw, curr, jmp_stack, p_pc, result>>
runVars == <<mem, mem_ptr, instr_ptr, stdin, stdout, r_pc>>
bfVars == <<code, memory, memptr, bf_instr_ptr, loopstack, istream, ostream, bf_pc>>
vars == <<file, cmds, parserVars, runVars, bfVars, execs>>

(***************************************************************************)
(* Bounds of the model.                                                    *)
(***************************************************************************)
MaxSrcLen == 5      \* longest source file of the parser runs
MaxBFLen == 4       \* longest source of the exhaustive BFInterpreter runs
MaxRunLen == 4      \* longest source of the exhaustive run_all runs
MaxCount == 256     \* largest repeat count of the arithmetic and loop programs
MaxMove == 2        \* pointer samples lie within MaxMove of the tape's ends
MaxOut == 3         \* output longer than this is not explored further
MaxExec == 300      \* executions of one instruction after which a run is not explored further

(***************************************************************************)
(* Program constants.                                                      *)
(***************************************************************************)
MEM_SIZE == 30000
U8 == 256
NEWLINE == 10

None == "None"
EIO == "EIO"        \* a failed read of the source file

SimpleOps == {"Add", "Sub", "Left", "Right", "Out", "In"}
CommandBytes == {"+", "-", "<", ">", ".", ",", "[", "]"}

Cell(m, p) == IF p \in DOMAIN m THEN m[p] ELSE 0

SetCell(m, p, v) ==
    IF v = 0
    THEN [q \in DOMAIN m \ {p} |-> m[q]]
    ELSE [q \in DOMAIN m \cup {p} |-> IF q = p THEN v ELSE m[q]]

ZeroTape == [q \in {} |-> 0]

Repeat(x, n) == [i \in 1..n |-> x]

RECURSIVE SeqsUpTo(_, _)
SeqsUpTo(S, n) ==
    IF n = 0 THEN {<<>>}
    ELSE LET shorter == SeqsUpTo(S, n - 1)
         IN shorter \cup {Append(s, x) : s \in {t \in shorter : Len(t) = n - 1}, x \in S}

(***************************************************************************)
(* parser.rs: Lexer                                                        *)
(***************************************************************************)
ByteToOp(byte) ==
    CASE byte = "+" -> "Add"
      [] byte = "-" -> "Sub"
      [] byte = "<" -> "Left"
      [] byte = ">" -> "Right"
      [] byte = "." -> "Out"
      [] byte = "," -> "In"
      [] byte = "[" -> "JmpZero"
      [] byte = "]" -> "JmpNonZero"

\* Lexer::next on the unread bytes r: the token returned and the bytes left.
RECURSIVE LexerNext(_)
LexerNext(r) ==
    IF r = <<>> THEN [tok |-> None, rest |-> <<>>]
    ELSE IF Head(r) = EIO THEN [tok |-> None, rest |-> Tail(r)]
    ELSE IF Head(r) \notin CommandBytes THEN LexerNext(Tail(r))
    ELSE [tok |-> ByteToOp(Head(r)), rest |-> Tail(r)]

\* The whole token sequence the lexer yields for r, up to its first None.
RECURSIVE Tokens(_)
Tokens(r) ==
    LET n == LexerNext(r)
    IN IF n.tok = None THEN <<>> ELSE <<n.tok>> \o Tokens(n.rest)

(***************************************************************************)
(* parser.rs: Parser::parse_all                                            *)
(***************************************************************************)
Cmd(operator, operand) == [operator |-> operator, operand |-> operand]

Ok(v) == [kind |-> "Ok", val |-> v]
UnclosedBracket(i) == [kind |-> "UnclosedBracket", val |-> i]
UnopenedBracket(i) == [kind |-> "UnopenedBracket", val |-> i]
NoResult == [kind |-> "None", val |-> 0]

\* A faulty CollapseRun: only the commands that follow one another with no
\* other byte between them are counted into one instruction.
CollapseRunAdjacent(operator, r) ==
    LET Same(k) == r[k] \in CommandBytes /\ ByteToOp(r[k]) = operator
        ends == {k \in 1..Len(r) : ~Same(k)}
        stop == IF ends = {} THEN Len(r) + 1
                ELSE CHOOSE k \in ends : \A e \in ends : k <= e
        n == LexerNext(SubSeq(r, stop, Len(r)))
    IN [operand |-> stop, next |-> n.tok, rest |-> n.rest]

\* The inner while loop of the simple-operator arm, entered with a token equal
\* to operator in hand and r unread: operand counts that token and every
\* further token equal to it; the loop ends on the first token that differs
\* (or on None), which is handed back as next, already consumed from r.
CollapseRun(operator, r) ==
    LET Yields(k) == r[k] = EIO \/ r[k] \in CommandBytes
        Differs(k) == Yields(k) /\ (r[k] = EIO \/ ByteToOp(r[k]) # operator)
        ends == {k \in 1..Len(r) : Differs(k)}
        stop == IF ends = {} THEN Len(r) + 1
                ELSE CHOOSE k \in ends : \A e \in ends : k <= e
        same == Cardinality({k \in 1..(stop - 1) : Yields(k)})
    IN [operand |-> 1 + same,
        next |-> IF stop > Len(r) \/ r[stop] = EIO THEN None ELSE ByteToOp(r[stop]),
        rest |-> SubSeq(r, stop + 1, Len(r))]

\* A faulty StackPop: the stack taken from the wrong end.
StackPopOldest(stack) == stack[1]

\* Vec::pop on the jump stack: the element taken, and the elements left.
StackPop(stack) == stack[Len(stack)]

StackRest(stack) == SubSeq(stack, 1, Len(stack) - 1)

\* The operand given to a `]` whose `[` sits at index close.
BackTarget(close) == close + 1

\* A faulty FwdTarget: the `[` is pointed at its `]`, not past it.
FwdTargetAtClose(cmdsLen) == cmdsLen - 1

\* A faulty FwdTarget: the `[` is patched to jump one instruction too far.
FwdTargetPastClose(cmdsLen) == cmdsLen + 1

\* The operand patched into the `[` once its `]` has been pushed.
FwdTarget(cmdsLen) == cmdsLen

\* A faulty UnopenedValue: the index the `]` would have had, plus one.
UnopenedAtNext(cmdsLen) == cmdsLen + 1

\* The value carried by UnopenedBracket.
UnopenedValue(cmdsLen) == cmdsLen

\* The state of one call of parse_all, as a record.
NewParse(bytes) ==
    [raw |-> bytes, curr |-> None, cmds |-> <<>>, jmp_stack |-> <<>>,
     pc |-> "new", result |-> NoResult]

\* let mut cmds, jmp_stack; let mut curr = self.token_stream.next();
DoBegin(s) ==
    LET n == LexerNext(s.raw)
    IN [s EXCEPT !.curr = n.tok, !.raw = n.rest, !.pc = "loop"]

\* A faulty DoSimple: the token that ended the run is dropped and the one
\* after it becomes the current token.
DoSimpleDropsNext(s) ==
    LET run == CollapseRun(s.curr, s.raw)
        n == LexerNext(run.rest)
    IN [s EXCEPT !.curr = IF run.next = None THEN None ELSE n.tok,
                 !.raw = IF run.next = None THEN run.rest ELSE n.rest,
                 !.cmds = Append(s.cmds, Cmd(s.curr, run.operand))]

\* Op::Add | Op::Sub | Op::Left | Op::Right | Op::Out | Op::In => ...
DoSimple(s) ==
    LET run == CollapseRun(s.curr, s.raw)
    IN [s EXCEPT !.curr = run.next, !.raw = run.rest,
                 !.cmds = Append(s.cmds, Cmd(s.curr, run.operand))]

\* Op::JmpZero => ...
DoJmpZero(s) ==
    LET n == LexerNext(s.raw)
    IN [s EXCEPT !.curr = n.tok, !.raw = n.rest,
                 !.jmp_stack = Append(s.jmp_stack, Len(s.cmds)),
                 !.cmds = Append(s.cmds, Cmd("JmpZero", 0))]

\* Op::JmpNonZero => ...
DoJmpNonZero(s) ==
    LET n == LexerNext(s.raw)
    IN IF s.jmp_stack = <<>>
       THEN [s EXCEPT !.curr = n.tok, !.raw = n.rest, !.pc = "returned",
                      !.result = UnopenedBracket(UnopenedValue(Len(s.cmds)))]
       ELSE LET close == StackPop(s.jmp_stack)
                pushed == Append(s.cmds, Cmd("JmpNonZero", BackTarget(close)))
            IN [s EXCEPT !.curr = n.tok, !.raw = n.rest,
                         !.jmp_stack = StackRest(s.jmp_stack),
                         !.cmds = [pushed EXCEPT ![close + 1].operand = FwdTarget(Len(pushed))]]

\* A faulty DoEnd: the jump stack is not looked at.
DoEndIgnoresStack(s) ==
    [s EXCEPT !.pc = "returned", !.result = Ok(s.cmds)]

\* if let Some(close) = jmp_stack.pop() { return Err(..) }  Ok(cmds)
DoEnd(s) ==
    IF s.jmp_stack # <<>>
    THEN [s EXCEPT !.pc = "returned", !.jmp_stack = StackRest(s.jmp_stack),
                   !.result = UnclosedBracket(StackPop(s.jmp_stack))]
    ELSE [s EXCEPT !.pc = "returned", !.result = Ok(s.cmds)]

\* One iteration of parse_all's while loop (or its entry, or its exit).
ParseStep(s) ==
    CASE s.pc = "new" -> DoBegin(s)
      [] s.pc = "loop" /\ s.curr \in SimpleOps -> DoSimple(s)
      [] s.pc = "loop" /\ s.curr = "JmpZero" -> DoJmpZero(s)
      [] s.pc = "loop" /\ s.curr = "JmpNonZero" -> DoJmpNonZero(s)
      [] s.pc = "loop" /\ s.curr = None -> DoEnd(s)

\* parse_all run to its return on the bytes of a file: the Result.
RECURSIVE ParseRun(_)
ParseRun(s) == IF s.pc = "returned" THEN s.result ELSE ParseRun(ParseStep(s))

parse_all(bytes) == ParseRun(NewParse(bytes))

PState ==
    [raw |-> raw, curr |-> curr, cmds |-> cmds, jmp_stack |-> jmp_stack,
     pc |-> p_pc, result |-> result]

SetPState(s) ==
    /\ raw' = s.raw
    /\ curr' = s.curr
    /\ cmds' = s.cmds
    /\ jmp_stack' = s.jmp_stack
    /\ p_pc' = s.pc
    /\ result' = s.result
    /\ UNCHANGED <<file, runVars, bfVars, execs>>

ParseBegin == p_pc = "new" /\ SetPState(DoBegin(PState))

ParseSimple == p_pc = "loop" /\ curr \in SimpleOps /\ SetPState(DoSimple(PState))

ParseJmpZero == p_pc = "loop" /\ curr = "JmpZero" /\ SetPState(DoJmpZero(PState))

ParseJmpNonZero ==
    p_pc = "loop" /\ curr = "JmpNonZero" /\ jmp_stack # <<>> /\ SetPState(DoJmpNonZero(PState))

ParseUnopened ==
    p_pc = "loop" /\ curr = "JmpNonZero" /\ jmp_stack = <<>> /\ SetPState(DoJmpNonZero(PState))

ParseUnclosed == p_pc = "loop" /\ curr = None /\ jmp_stack # <<>> /\ SetPState(DoEnd(PState))

ParseOk == p_pc = "loop" /\ curr = None /\ jmp_stack = <<>> /\ SetPState(DoEnd(PState))

ParseNext ==
    \/ ParseBegin
    \/ ParseSimple
    \/ ParseJmpZero
    \/ ParseJmpNonZero
    \/ ParseUnopened
    \/ ParseUnclosed
    \/ ParseOk

(***************************************************************************)
(* interpreter.rs: Interpreter::run_all                                    *)
(***************************************************************************)
\* A faulty AsU8: the cast saturates instead of truncating.
AsU8Saturating(n) == IF n >= U8 THEN U8 - 1 ELSE n

\* cmd.operand as u8
AsU8(n) == n % U8

\* u8::wrapping_add
WrappingAdd(a, b) == (a + b) % U8

\* A faulty WrappingSub: the difference stops at zero.
SaturatingSub(a, b) == IF a < b THEN 0 ELSE a - b

\* u8::wrapping_sub
WrappingSub(a, b) == (a + U8 - b) % U8

\* A faulty MoveLeft: the pointer stops at cell 0.
MoveLeftClamped(p, n) == IF p < n THEN 0 ELSE p - n

\* (mem_ptr as i128 - cmd.operand as i128).rem_euclid(MEM_SIZE as i128) as usize
MoveLeft(p, n) == (p - n) % MEM_SIZE

\* (mem_ptr + cmd.operand).rem_euclid(MEM_SIZE), in usize.  The sum stays far
\* below 2^64 for every operand explored here, and for every operand parse_all
\* can count, which is bounded by the length of the source file.
MoveRight(p, n) == (p + n) % MEM_SIZE

\* u8::is_ascii
IsAscii(b) == b < 128

\* Stdin::read_line on what waits on standard input s (code points of valid
\* UTF-8 text, or ReadErr where the read fails): the line read, its newline
\* included, and what is left.
RECURSIVE LineLen(_)
LineLen(s) ==
    IF s = <<>> THEN 0
    ELSE IF Head(s) = NEWLINE THEN 1
    ELSE 1 + LineLen(Tail(s))

ReadLine(s) ==
    [buf |-> SubSeq(s, 1, LineLen(s)), rest |-> SubSeq(s, LineLen(s) + 1, Len(s))]

\* What waits on standard input where the read returns Err (no code point and
\* no byte is negative).
ReadErr == -1

\* read_line returns Err, on which .expect("Stdin should work lmao") panics.
ReadFails(buf) == \E i \in 1..Len(buf) : buf[i] = ReadErr

\* buf.pop(); buf.pop().map(|c| c as u32).unwrap_or(0) as u8
LastCharOf(buf) == IF Len(buf) >= 2 THEN buf[Len(buf) - 1] % U8 ELSE 0

\* The jump of `[`: the next instr_ptr.
\* A faulty JmpZeroNext: the loop is entered whatever the cell holds.
JmpZeroFallsThrough(cell, operand, ip) == ip + 1

\* The jump of `[`: the next instr_ptr.
JmpZeroNext(cell, operand, ip) == IF cell = 0 THEN operand ELSE ip + 1

\* A faulty JmpNonZeroNext: the loop is repeated when the cell is zero.
JmpNonZeroInverted(cell, operand, ip) == IF cell = 0 THEN operand ELSE ip + 1

\* A faulty JmpNonZeroNext: the loop is never repeated.
JmpNonZeroFallsThrough(cell, operand, ip) == ip + 1

\* The jump of `]`: the next instr_ptr.
JmpNonZeroNext(cell, operand, ip) == IF cell # 0 THEN operand ELSE ip + 1

Count(e, i) == IF i \in DOMAIN e THEN e[i] ELSE 0

Counted(e, i) == [j \in DOMAIN e \cup {i} |-> IF j = i THEN Count(e, i) + 1 ELSE e[j]]

NoExecs == [j \in {} |-> 0]

RunCmd == cmds[instr_ptr + 1]

RunCell == Cell(mem, mem_ptr)

\* while instr_ptr < cmds.len() { let cmd = &cmds[instr_ptr]; match cmd.operator ...
RunFetch(operator) ==
    /\ r_pc = "running"
    /\ instr_ptr < Len(cmds)
    /\ RunCmd.operator = operator
    /\ Count(execs, instr_ptr) < MaxExec
    /\ execs' = Counted(execs, instr_ptr)

RunAdd ==
    /\ RunFetch("Add")
    /\ mem' = SetCell(mem, mem_ptr, WrappingAdd(RunCell, AsU8(RunCmd.operand)))
    /\ instr_ptr' = instr_ptr + 1
    /\ UNCHANGED <<file, cmds, parserVars, bfVars, mem_ptr, stdin, stdout, r_pc>>

RunSub ==
    /\ RunFetch("Sub")
    /\ mem' = SetCell(mem, mem_ptr, WrappingSub(RunCell, AsU8(RunCmd.operand)))
    /\ instr_ptr' = instr_ptr + 1
    /\ UNCHANGED <<file, cmds, parserVars, bfVars, mem_ptr, stdin, stdout, r_pc>>

RunLeft ==
    /\ RunFetch("Left")
    /\ mem_ptr' = MoveLeft(mem_ptr, RunCmd.operand)
    /\ instr_ptr' = instr_ptr + 1
    /\ UNCHANGED <<file, cmds, parserVars, bfVars, mem, stdin, stdout, r_pc>>

RunRight ==
    /\ RunFetch("Right")
    /\ mem_ptr' = MoveRight(mem_ptr, RunCmd.operand)
    /\ instr_ptr' = instr_ptr + 1
    /\ UNCHANGED <<file, cmds, parserVars, bfVars, mem, stdin, stdout, r_pc>>

RunOut ==
    /\ RunFetch("Out")
    /\ Len(stdout) < MaxOut
    /\ IF ~IsAscii(RunCell)
       THEN /\ r_pc' = "panic"
            /\ UNCHANGED <<stdout, instr_ptr>>
       ELSE /\ stdout' = stdout \o Repeat(RunCell, RunCmd.operand)
            /\ instr_ptr' = instr_ptr + 1
            /\ UNCHANGED r_pc
    /\ UNCHANGED <<file, cmds, parserVars, bfVars, mem, mem_ptr, stdin>>

RunIn ==
    /\ RunFetch("In")
    /\ LET line == ReadLine(stdin)
       IN /\ stdin' = line.rest
          /\ IF ReadFails(line.buf)
             THEN /\ r_pc' = "panic"
                  /\ UNCHANGED <<mem, instr_ptr>>
             ELSE /\ mem' = SetCell(mem, mem_ptr, LastCharOf(line.buf))
                  /\ instr_ptr' = instr_ptr + 1
                  /\ UNCHANGED r_pc
    /\ UNCHANGED <<file, cmds, parserVars, bfVars, mem_ptr, stdout>>

RunJmpZero ==
    /\ RunFetch("JmpZero")
    /\ instr_ptr' = JmpZeroNext(RunCell, RunCmd.operand, instr_ptr)
    /\ UNCHANGED <<file, cmds, parserVars, bfVars, mem, mem_ptr, stdin, stdout, r_pc>>

RunJmpNonZero ==
    /\ RunFetch("JmpNonZero")
    /\ instr_ptr' = JmpNonZeroNext(RunCell, RunCmd.operand, instr_ptr)
    /\ UNCHANGED <<file, cmds, parserVars, bfVars, mem, mem_ptr, stdin, stdout, r_pc>>

\* The loop condition fails: run_all returns.
RunReturn ==
    /\ r_pc = "running"
    /\ instr_ptr >= Len(cmds)
    /\ r_pc' = "done"
    /\ UNCHANGED <<file, cmds, parserVars, bfVars, mem, mem_ptr, instr_ptr, stdin, stdout, execs>>

(***************************************************************************)
(* main.rs: BFInterpreter                                                  *)
(***************************************************************************)
ByteToToken(c) ==
    CASE c = ">" -> "INCM"
      [] c = "<" -> "DECM"
      [] c = "+" -> "INCV"
      [] c = "-" -> "DECV"
      [] c = "[" -> "LSRT"
      [] c = "]" -> "LEND"
      [] c = "," -> "IN"
      [] c = "." -> "OUT"
      [] OTHER -> None

\* BFInterpreter::parse
BFParse(bytes) ==
    LET kept == SelectSeq(bytes, LAMBDA c : ByteToToken(c) # None)
    IN [i \in 1..Len(kept) |-> ByteToToken(kept[i])]

\* INCM: if memptr < memory.len() - 1 { memptr += 1 }
Incm(p) == IF p < MEM_SIZE - 1 THEN p + 1 ELSE p

\* DECM: if memptr > 0 { memptr -= 1 }
Decm(p) == IF p > 0 THEN p - 1 ELSE p

\* while code[instr_ptr] != LEND { instr_ptr += 1 }: the index the scan stops
\* at, which is c.len() when the indexing runs off the end of the code.
ScanLEND(c, k) ==
    LET stops == {j \in k..(Len(c) - 1) : c[j + 1] = "LEND"}
    IN IF stops # {} THEN CHOOSE j \in stops : \A e \in stops : j <= e
       ELSE IF k >= Len(c) THEN k
       ELSE Len(c)

BFCell == Cell(memory, memptr)

\* let mut memory = [0_u8; 30_000]; ... let mut loopstack = Vec::new();
BFBegin ==
    /\ bf_pc = "new"
    /\ code' = BFParse(file)
    /\ memory' = ZeroTape
    /\ memptr' = 0
    /\ bf_instr_ptr' = 0
    /\ loopstack' = <<>>
    /\ bf_pc' = "running"
    /\ UNCHANGED <<file, cmds, parserVars, runVars, istream, ostream, execs>>

\* let token = code.get(instr_ptr); instr_ptr += 1; match token.unwrap() ...
BFFetch(token) ==
    /\ bf_pc = "running"
    /\ bf_instr_ptr < Len(code)
    /\ code[bf_instr_ptr + 1] = token
    /\ Count(execs, bf_instr_ptr) < MaxExec
    /\ execs' = Counted(execs, bf_instr_ptr)

BFIncm ==
    /\ BFFetch("INCM")
    /\ memptr' = Incm(memptr)
    /\ bf_instr_ptr' = bf_instr_ptr + 1
    /\ UNCHANGED <<file, cmds, parserVars, runVars, code, memory, loopstack, istream, ostream, bf_pc>>

BFDecm ==
    /\ BFFetch("DECM")
    /\ memptr' = Decm(memptr)
    /\ bf_instr_ptr' = bf_instr_ptr + 1
    /\ UNCHANGED <<file, cmds, parserVars, runVars, code, memory, loopstack, istream, ostream, bf_pc>>

BFIncv ==
    /\ BFFetch("INCV")
    /\ memory' = SetCell(memory, memptr, WrappingAdd(BFCell, 1))
    /\ bf_instr_ptr' = bf_instr_ptr + 1
    /\ UNCHANGED <<file, cmds, parserVars, runVars, code, memptr, loopstack, istream, ostream, bf_pc>>

BFDecv ==
    /\ BFFetch("DECV")
    /\ memory' = SetCell(memory, memptr, WrappingSub(BFCell, 1))
    /\ bf_instr_ptr' = bf_instr_ptr + 1
    /\ UNCHANGED <<file, cmds, parserVars, runVars, code, memptr, loopstack, istream, ostream, bf_pc>>

BFLsrt ==
    /\ BFFetch("LSRT")
    /\ IF BFCell = 0
       THEN LET stop == ScanLEND(code, bf_instr_ptr + 1)
            IN IF stop >= Len(code)
               THEN /\ bf_pc' = "panic"
                    /\ bf_instr_ptr' = stop
                    /\ UNCHANGED loopstack
               ELSE /\ bf_instr_ptr' = stop + 1
                    /\ UNCHANGED <<loopstack, bf_pc>>
       ELSE /\ loopstack' = Append(loopstack, bf_instr_ptr + 1)
            /\ bf_instr_ptr' = bf_instr_ptr + 1
            /\ UNCHANGED bf_pc
    /\ UNCHANGED <<file, cmds, parserVars, runVars, code, memory, memptr, istream, ostream>>

BFLend ==
    /\ BFFetch("LEND")
    /\ IF BFCell = 0
       THEN /\ loopstack' = StackRest(loopstack)
            /\ bf_instr_ptr' = bf_instr_ptr + 1
            /\ UNCHANGED bf_pc
       ELSE IF loopstack = <<>>
            THEN /\ bf_pc' = "panic"
                 /\ bf_instr_ptr' = bf_instr_ptr + 1
                 /\ UNCHANGED loopstack
            ELSE /\ bf_instr_ptr' = loopstack[Len(loopstack)]
                 /\ UNCHANGED <<loopstack, bf_pc>>
    /\ UNCHANGED <<file, cmds, parserVars, runVars, code, memory, memptr, istream, ostream>>

BFIn ==
    /\ BFFetch("IN")
    /\ bf_instr_ptr' = bf_instr_ptr + 1
    /\ IF istream = <<>> \/ Head(istream) = ReadErr
       THEN /\ bf_pc' = "panic"
            /\ UNCHANGED <<memory, istream>>
       ELSE /\ memory' = SetCell(memory, memptr, Head(istream))
            /\ istream' = Tail(istream)
            /\ UNCHANGED bf_pc
    /\ UNCHANGED <<file, cmds, parserVars, runVars, code, memptr, loopstack, ostream>>

BFOut ==
    /\ BFFetch("OUT")
    /\ Len(ostream) < MaxOut
    /\ ostream' = Append(ostream, BFCell)
    /\ bf_instr_ptr' = bf_instr_ptr + 1
    /\ UNCHANGED <<file, cmds, parserVars, runVars, code, memory, memptr, loopstack, istream, bf_pc>>

\* code.get(instr_ptr) is None: break
BFBreak ==
    /\ bf_pc = "running"
    /\ bf_instr_ptr >= Len(code)
    /\ bf_instr_ptr' = bf_instr_ptr + 1
    /\ bf_pc' = "done"
    /\ UNCHANGED <<file, cmds, parserVars, runVars, code, memory, memptr, loopstack, istream, ostream, execs>>

(***************************************************************************)
(* The runs explored.  One component runs in a behaviour; the others idle. *)
(***************************************************************************)
ParserIdle ==
    /\ raw = <<>>
    /\ curr = None
    /\ jmp_stack = <<>>
    /\ p_pc = "idle"
    /\ result = NoResult

RunIdle ==
    /\ mem = ZeroTape
    /\ mem_ptr = 0
    /\ instr_ptr = 0
    /\ stdin = <<>>
    /\ stdout = <<>>
    /\ r_pc = "idle"

BFIdle ==
    /\ code = <<>>
    /\ memory = ZeroTape
    /\ memptr = 0
    /\ bf_instr_ptr = 0
    /\ loopstack = <<>>
    /\ istream = <<>>
    /\ ostream = <<>>
    /\ bf_pc = "idle"

\* Parser::from_file(path), about to be consumed by parse_all.
InitParser(sources) ==
    /\ file \in sources
    /\ raw = file
    /\ curr = None
    /\ cmds = <<>>
    /\ jmp_stack = <<>>
    /\ p_pc = "new"
    /\ result = NoResult
    /\ RunIdle
    /\ BFIdle
    /\ execs = NoExecs

\* Interpreter::new().run_all(list), entering the while loop.
InitRunCmds(lists, inputs) ==
    /\ cmds \in lists
    /\ mem = ZeroTape
    /\ mem_ptr = 0
    /\ instr_ptr = 0
    /\ stdin \in IF \E i \in 1..Len(cmds) : cmds[i].operator = "In" THEN inputs ELSE {<<>>}
    /\ stdout = <<>>
    /\ r_pc = "running"
    /\ ParserIdle
    /\ BFIdle
    /\ execs = NoExecs

\* The same, on the list parse_all returns for a source file.
InitRun(sources, inputs) ==
    /\ file \in {s \in sources : parse_all(s).kind = "Ok"}
    /\ InitRunCmds({parse_all(file).val}, inputs)

\* BFInterpreter::new(raw, istream, ostream), about to run.
InitBF(sources, inputs) ==
    /\ file \in sources
    /\ cmds = <<>>
    /\ code = <<>>
    /\ memory = ZeroTape
    /\ memptr = 0
    /\ bf_instr_ptr = 0
    /\ loopstack = <<>>
    /\ istream \in IF \E i \in 1..Len(file) : file[i] = "," THEN inputs ELSE {<<>>}
    /\ ostream = <<>>
    /\ bf_pc = "new"
    /\ ParserIdle
    /\ RunIdle
    /\ execs = NoExecs

\* The programs of the tests in main.rs and of the documentation.
TestSources ==
    { <<",", ".">>,
      <<"+", ".">>,
      <<"a", "d", "d", " ", "+", " ", "p", "r", "i", "n", "t", " ", ".">>,
      <<"+", "-", ".">>,
      <<"-", ".">>,
      <<"+", ">", "+", "+", "<", ".", ">", ".", ">", ".">>,
      <<"[", "-", "]", ".">>,
      <<"+", "+", "+", "[", ">", "+", "+", "<", "-", "]", ".", ">", ".">>,
      <<"+", "+", "[", ">", "+", "+", "+", "[", ">", "+", "+", "+", "+", "+", "<", "-", "]",
        "<", "-", "]", ".", ">", ".", ">", ".">>,
      <<"+", "+", "+", "+", "[", ">", ",", ".", "<", "-", "]">>,
      <<"[", "[", "-", "]", "+", "]">>,
      <<"+", ".", "]">>,
      <<"+", ".", "[">> }

ParserBytes == {"+", "-", "[", "]", "x"}
ParserSources ==
    SeqsUpTo(ParserBytes, MaxSrcLen)
        \cup {s \o <<EIO>> \o u : s \in SeqsUpTo(ParserBytes, 2), u \in SeqsUpTo(ParserBytes, 2)}
        \cup TestSources

RunSources == SeqsUpTo(CommandBytes, MaxRunLen) \cup TestSources
RunInputs == {<<>>, <<97, NEWLINE>>, <<98, 114, NEWLINE, 117>>, <<99, 100, 101, NEWLINE>>, <<ReadErr>>}

BFSources == SeqsUpTo(CommandBytes, MaxBFLen) \cup TestSources
BFInputs == {<<>>, <<97>>, <<98, 114, 117, 104>>, <<ReadErr>>}

Init ==
    \/ InitParser(ParserSources)
    \/ InitRun(RunSources, RunInputs)
    \/ InitBF(BFSources, BFInputs)

RunNext ==
    \/ RunAdd
    \/ RunSub
    \/ RunLeft
    \/ RunRight
    \/ RunOut
    \/ RunIn
    \/ RunJmpZero
    \/ RunJmpNonZero
    \/ RunReturn

BFNext ==
    \/ BFBegin
    \/ BFIncm
    \/ BFDecm
    \/ BFIncv
    \/ BFDecv
    \/ BFLsrt
    \/ BFLend
    \/ BFIn
    \/ BFOut
    \/ BFBreak

Next == ParseNext \/ RunNext \/ BFNext

Spec == Init /\ [][Next]_vars

(***************************************************************************)
(* Bracket structure, defined on its own (not through the parser).         *)
(***************************************************************************)
SetMin(S) == CHOOSE x \in S : \A y \in S : x <= y
SetMax(S) == CHOOSE x \in S : \A y \in S : y <= x

\* The index (0-based) of the JmpNonZero that brings the nesting depth back to
\* zero, scanning c forward from index k at the given depth; -1 if there is none.
RECURSIVE ScanClose(_, _, _)
ScanClose(c, k, depth) ==
    IF k >= Len(c) THEN -1
    ELSE IF c[k + 1].operator = "JmpZero" THEN ScanClose(c, k + 1, depth + 1)
    ELSE IF c[k + 1].operator = "JmpNonZero"
         THEN IF depth = 1 THEN k ELSE ScanClose(c, k + 1, depth - 1)
    ELSE ScanClose(c, k + 1, depth)

\* The same, backward, for the JmpZero that opens.
RECURSIVE ScanOpen(_, _, _)
ScanOpen(c, k, depth) ==
    IF k < 0 THEN -1
    ELSE IF c[k + 1].operator = "JmpNonZero" THEN ScanOpen(c, k - 1, depth + 1)
    ELSE IF c[k + 1].operator = "JmpZero"
         THEN IF depth = 1 THEN k ELSE ScanOpen(c, k - 1, depth - 1)
    ELSE ScanOpen(c, k - 1, depth)

MatchClose(c, i) == ScanClose(c, i + 1, 1)
MatchOpen(c, j) == ScanOpen(c, j - 1, 1)

\* The position (1-based) in a token sequence of the first `]` met while no
\* `[` is pending; 0 if there is none.
RECURSIVE FirstUnopened(_, _, _)
FirstUnopened(toks, k, depth) ==
    IF k > Len(toks) THEN 0
    ELSE IF toks[k] = "JmpZero" THEN FirstUnopened(toks, k + 1, depth + 1)
    ELSE IF toks[k] = "JmpNonZero"
         THEN IF depth = 0 THEN k ELSE FirstUnopened(toks, k + 1, depth - 1)
    ELSE FirstUnopened(toks, k + 1, depth)

\* The number of `[` left pending at the end of a token sequence (an
\* unmatched `]` closes nothing).
RECURSIVE PendingAtEnd(_, _, _)
PendingAtEnd(toks, k, depth) ==
    IF k > Len(toks) THEN depth
    ELSE IF toks[k] = "JmpZero" THEN PendingAtEnd(toks, k + 1, depth + 1)
    ELSE IF toks[k] = "JmpNonZero"
         THEN PendingAtEnd(toks, k + 1, IF depth = 0 THEN 0 ELSE depth - 1)
    ELSE PendingAtEnd(toks, k + 1, depth)

HasUnopened(toks) == FirstUnopened(toks, 1, 0) # 0
HasUnclosed(toks) == PendingAtEnd(toks, 1, 0) > 0
Balanced(toks) == ~HasUnopened(toks) /\ ~HasUnclosed(toks)

\* The greatest nesting depth a token sequence reaches.
RECURSIVE MaxDepth(_, _, _)
MaxDepth(toks, k, depth) ==
    IF k > Len(toks) THEN depth
    ELSE LET d == IF toks[k] = "JmpZero" THEN depth + 1
                  ELSE IF toks[k] = "JmpNonZero" /\ depth > 0 THEN depth - 1
                  ELSE depth
             m == MaxDepth(toks, k + 1, d)
         IN IF m > depth THEN m ELSE depth

\* The number of instructions a token sequence collapses into: one for each
\* bracket and one for each maximal run of one simple operator.
CollapsedLen(toks) ==
    Cardinality({k \in 1..Len(toks) :
        toks[k] \notin SimpleOps \/ k = 1 \/ toks[k - 1] # toks[k]})

\* The indices of the `[` instructions of c that no `]` closes.
UnmatchedOpens(c) ==
    {i \in 0..(Len(c) - 1) : c[i + 1].operator = "JmpZero" /\ MatchClose(c, i) = -1}

(***************************************************************************)
(* Claims about Parser::parse_all                                          *)
(***************************************************************************)
WellFormedJumps(c) ==
    \A i \in 0..(Len(c) - 1) :
        /\ c[i + 1].operator = "JmpZero" =>
              LET j == MatchClose(c, i)
              IN /\ j > i
                 /\ c[i + 1].operand = j + 1
                 /\ c[j + 1].operator = "JmpNonZero"
                 /\ c[j + 1].operand = i + 1
        /\ c[i + 1].operator = "JmpNonZero" =>
              LET o == MatchOpen(c, i)
              IN /\ o >= 0
                 /\ o < i
                 /\ c[i + 1].operand = o + 1
                 /\ c[o + 1].operator = "JmpZero"
                 /\ c[o + 1].operand = i + 1
        /\ c[i + 1].operator \in {"JmpZero", "JmpNonZero"} =>
              c[i + 1].operand \in 1..Len(c)

\* C1: whenever parse_all returns Ok(cmds), every JmpZero at index i has
\* operand j + 1 where j > i is the index of its matching JmpNonZero, which has
\* operand i + 1; every JmpNonZero is matched likewise; every jump operand lies
\* in 1..=len(cmds), so no JmpZero keeps the placeholder 0.
C1_JumpPairsWellFormed ==
    (p_pc = "returned" /\ result.kind = "Ok") => WellFormedJumps(result.val)

\* parse_all has returned Ok for a program with a loop nested in a loop
\* that is followed by another instruction.
C1_Witness ==
    /\ p_pc = "returned"
    /\ result.kind = "Ok"
    /\ \E i \in 1..(Len(result.val) - 1) :
          /\ result.val[i].operator = "JmpZero"
          /\ result.val[i + 1].operator = "JmpZero"
          /\ result.val[i].operand = Len(result.val)

\* C2: parse_all returns Ok exactly for the token sequences whose brackets are
\* correctly nested, at any depth; a sequence with an unmatched `]` returns
\* UnopenedBracket, and a sequence with an unmatched `[` (and no unmatched `]`
\* before it is reached) returns UnclosedBracket.
C2_OkIffBalanced ==
    p_pc = "returned" =>
        LET toks == Tokens(file)
        IN /\ (result.kind = "Ok") <=> Balanced(toks)
           /\ result.kind = "Ok" => result.val = cmds
           /\ HasUnopened(toks) => result.kind = "UnopenedBracket"
           /\ (HasUnclosed(toks) /\ ~HasUnopened(toks)) => result.kind = "UnclosedBracket"

\* parse_all has returned Ok for a source with loops nested two deep.
C2_Witness ==
    /\ p_pc = "returned"
    /\ result.kind = "Ok"
    /\ MaxDepth(Tokens(file), 1, 0) >= 2

\* C3 as stated: the index carried by UnclosedBracket is that of the oldest
\* (outermost, first opened) unmatched `[`.
C3_OldestUnclosed ==
    (p_pc = "returned" /\ result.kind = "UnclosedBracket") =>
        result.val = SetMin(UnmatchedOpens(cmds))

\* C3 as amended: the index carried by UnclosedBracket is that of the newest
\* (innermost, last opened) unmatched `[`; it is the oldest one only when a
\* single `[` is pending.
C3_NewestUnclosed ==
    (p_pc = "returned" /\ result.kind = "UnclosedBracket") =>
        /\ UnmatchedOpens(cmds) # {}
        /\ result.val = SetMax(UnmatchedOpens(cmds))
        /\ (Cardinality(UnmatchedOpens(cmds)) = 1 => result.val = SetMin(UnmatchedOpens(cmds)))

\* parse_all has returned UnclosedBracket with two or more `[` pending.
C3_Witness ==
    /\ p_pc = "returned"
    /\ result.kind = "UnclosedBracket"
    /\ Cardinality(UnmatchedOpens(cmds)) >= 2

\* C4: parse_all fails at the first `]` met while no `[` is pending, whatever
\* tokens follow it, and UnopenedBracket carries the number of instructions
\* already emitted into the collapsed list at that moment.
C4_UnopenedCarriesLength ==
    (p_pc = "returned" /\ HasUnopened(Tokens(file))) =>
        LET toks == Tokens(file)
            before == SubSeq(toks, 1, FirstUnopened(toks, 1, 0) - 1)
        IN /\ result = UnopenedBracket(CollapsedLen(before))
           /\ result.val = Len(cmds)

\* parse_all has returned UnopenedBracket after emitting a collapsed run, with
\* tokens still following the offending `]`.
C4_Witness ==
    /\ p_pc = "returned"
    /\ result.kind = "UnopenedBracket"
    /\ LET toks == Tokens(file)
           first == FirstUnopened(toks, 1, 0)
       IN /\ first < Len(toks)
          /\ result.val >= 2
          /\ result.val < first - 1

(***************************************************************************)
(* Claims about BFInterpreter::run and Interpreter::run_all on the         *)
(* programs of Spec                                                        *)
(***************************************************************************)
\* The token list of BFInterpreter, as a list of instructions without operands.
TokenToOp(token) ==
    CASE token = "INCM" -> "Right"
      [] token = "DECM" -> "Left"
      [] token = "INCV" -> "Add"
      [] token = "DECV" -> "Sub"
      [] token = "LSRT" -> "JmpZero"
      [] token = "LEND" -> "JmpNonZero"
      [] token = "IN" -> "In"
      [] token = "OUT" -> "Out"

CodeAsCmds(c) == [i \in 1..Len(c) |-> Cmd(TokenToOp(c[i]), 1)]

\* C5 as stated: for a source with unbalanced brackets no command is executed
\* (none of `+ - < > . ,` is ever fetched): the tape is untouched, nothing is
\* read and nothing is written.
C5_NothingRunsWhenUnbalanced ==
    (bf_pc # "idle" /\ ~Balanced(Tokens(file))) =>
        /\ \A i \in DOMAIN execs : code[i + 1] \in {"LSRT", "LEND"}
        /\ memory = ZeroTape
        /\ ostream = <<>>

\* C6 as stated: a `[` reached with the current cell zero moves control to the
\* instruction right after its matching `]`, in both interpreters.
C6_ZeroCellSkipsToMatch ==
    [][/\ (/\ r_pc = "running"
           /\ instr_ptr < Len(cmds)
           /\ RunCmd.operator = "JmpZero"
           /\ RunCell = 0
           /\ MatchClose(cmds, instr_ptr) # -1)
          => /\ instr_ptr' = MatchClose(cmds, instr_ptr) + 1
             /\ r_pc' = "running"
       /\ (/\ bf_pc = "running"
           /\ bf_instr_ptr < Len(code)
           /\ code[bf_instr_ptr + 1] = "LSRT"
           /\ BFCell = 0
           /\ MatchClose(CodeAsCmds(code), bf_instr_ptr) # -1)
          => /\ bf_instr_ptr' = MatchClose(CodeAsCmds(code), bf_instr_ptr) + 1
             /\ bf_pc' = "running"]_vars

\* C9 as stated: in BFInterpreter::run `<` at position 0 moves the pointer to
\* the last cell and `>` at the last cell moves it to position 0.
C9_PointerWraps ==
    [][/\ (/\ bf_pc = "running"
           /\ bf_instr_ptr < Len(code)
           /\ code[bf_instr_ptr + 1] = "DECM"
           /\ memptr = 0)
          => memptr' = MEM_SIZE - 1
       /\ (/\ bf_pc = "running"
           /\ bf_instr_ptr < Len(code)
           /\ code[bf_instr_ptr + 1] = "INCM"
           /\ memptr = MEM_SIZE - 1)
          => memptr' = 0]_vars

(***************************************************************************)
(* SpecArith: n times `+` then `-`, and n times `-` then `+`, run by       *)
(* run_all on the parsed list and by BFInterpreter token by token.         *)
(***************************************************************************)
ArithSources ==
    {Repeat("+", n) \o <<"-">> : n \in 0..MaxCount}
        \cup {Repeat("-", n) \o <<"+">> : n \in 0..MaxCount}

InitArith == InitRun(ArithSources, {<<>>}) \/ InitBF(ArithSources, {<<>>})

NextArith == RunAdd \/ RunSub \/ RunReturn \/ BFBegin \/ BFIncv \/ BFDecv \/ BFBreak

SpecArith == InitArith /\ [][NextArith]_vars

\* The cell under the pointer of the interpreter that runs.
CurrentCell == IF r_pc # "idle" THEN RunCell ELSE BFCell

Finished == r_pc = "done" \/ bf_pc = "done"

\* C7: for every n, from a zero cell, n increments then one decrement leave
\* (n - 1) mod 256 and n decrements then one increment leave (1 - n) mod 256,
\* executed one by one (BFInterpreter) or as one instruction of operand n
\* (run_all on the parsed list).
C7_WrappingArithmetic ==
    LET n == Len(file) - 1
    IN /\ Finished =>
            /\ file[Len(file)] = "-" => CurrentCell = (n - 1) % U8
            /\ file[Len(file)] = "+" => CurrentCell = (1 - n) % U8
       /\ (r_pc # "idle" /\ n >= 1) =>
            cmds = <<Cmd(ByteToOp(file[1]), n), Cmd(ByteToOp(file[Len(file)]), 1)>>
       /\ bf_pc \in {"running", "done"} => Len(code) = n + 1

\* run_all has finished 255 decrements, executed as one instruction, then one
\* increment, so the cell has wrapped below zero.
C7_Witness ==
    /\ r_pc = "done"
    /\ cmds = <<Cmd("Sub", 255), Cmd("Add", 1)>>
    /\ RunCell = 2

(***************************************************************************)
(* SpecMove: run_all moves the pointer to p, then n right and n left.      *)
(***************************************************************************)
PtrSamples ==
    (0..MaxMove) \cup {MEM_SIZE \div 2} \cup ((MEM_SIZE - 1 - MaxMove)..(MEM_SIZE - 1))

MoveSamples ==
    (1..(MaxMove + 1))
        \cup ((MEM_SIZE - MaxMove)..(MEM_SIZE + MaxMove))
        \cup ((2 * MEM_SIZE - MaxMove)..(2 * MEM_SIZE + MaxMove))

\* The list parse_all returns for p times `>`, `+`, n times `>`, n times `<`.
MoveProg(p, n) ==
    (IF p = 0 THEN <<>> ELSE <<Cmd("Right", p)>>)
        \o <<Cmd("Add", 1), Cmd("Right", n), Cmd("Left", n)>>

\* No source file is kept for these lists: it would be tens of thousands of
\* bytes long.
InitMove ==
    /\ file = <<>>
    /\ InitRunCmds({MoveProg(p, n) : p \in PtrSamples, n \in MoveSamples}, {<<>>})

NextMove == RunAdd \/ RunRight \/ RunLeft \/ RunReturn

SpecMove == InitMove /\ [][NextMove]_vars

MoveFrom == IF cmds[1].operator = "Right" THEN cmds[1].operand ELSE 0
MoveBy == cmds[Len(cmds)].operand

\* C8: in run_all, from any pointer position p, Right n followed by Left n
\* leaves the pointer at p, also for n above the tape length, and the pointer
\* stays inside the tape in between.
C8_RightThenLeftReturns ==
    r_pc # "idle" =>
        /\ mem_ptr \in 0..(MEM_SIZE - 1)
        /\ instr_ptr = Len(cmds) - 2 => mem_ptr = MoveFrom
        /\ instr_ptr = Len(cmds) - 1 => mem_ptr = (MoveFrom + MoveBy) % MEM_SIZE
        /\ instr_ptr = Len(cmds) => mem_ptr = MoveFrom

\* run_all has moved from the last cell by more than two tape lengths and back.
C8_Witness ==
    /\ r_pc = "done"
    /\ MoveBy > 2 * MEM_SIZE
    /\ MoveFrom = MEM_SIZE - 1
    /\ mem_ptr = MEM_SIZE - 1

(***************************************************************************)
(* SpecLoop: v times `+` then `[-]`, in both interpreters.  Each is a      *)
(* single thread that keeps executing until it returns or panics.          *)
(***************************************************************************)
LoopSources == {Repeat("+", v) \o <<"[", "-", "]">> : v \in 0..MaxCount}

InitLoop == InitRun(LoopSources, {<<>>}) \/ InitBF(LoopSources, {<<>>})

NextLoop ==
    \/ RunAdd
    \/ RunSub
    \/ RunJmpZero
    \/ RunJmpNonZero
    \/ RunReturn
    \/ BFBegin
    \/ BFIncv
    \/ BFDecv
    \/ BFLsrt
    \/ BFLend
    \/ BFBreak

SpecLoop == InitLoop /\ [][NextLoop]_vars /\ WF_vars(NextLoop)

\* The value of the cell when the loop is reached, and the index of the `-`
\* of the loop body in the instructions of the interpreter that runs.
LoopStartValue == (Len(file) - 3) % U8
LoopBodyIndex == IF r_pc # "idle" THEN Len(cmds) - 2 ELSE Len(file) - 2

\* C10: for every starting value v of the cell, `[-]` terminates with the
\* cell at 0 after exactly v executions of its body (none when v = 0).
C10_ClearLoopTerminates ==
    <>[](/\ Finished
         /\ CurrentCell = 0
         /\ Count(execs, LoopBodyIndex) = LoopStartValue)

\* run_all has finished `[-]` entered with the cell at 255.
C10_Witness ==
    /\ r_pc = "done"
    /\ LoopStartValue = 255
    /\ Count(execs, LoopBodyIndex) = 255
    /\ RunCell = 0

(***************************************************************************)
(* Claims about input and output                                           *)
(***************************************************************************)
\* The interpreter is about to execute an instruction of this operator.
RunAt(operator) == r_pc = "running" /\ instr_ptr < Len(cmds) /\ RunCmd.operator = operator
BFAt(token) == bf_pc = "running" /\ bf_instr_ptr < Len(code) /\ code[bf_instr_ptr + 1] = token

\* C11 as stated: an input instruction with repeat count k consumes exactly k
\* bytes of the input and stores the k-th of them in the current cell (in
\* BFInterpreter, where the k commands are k instructions, each consumes one
\* byte and stores it).
C11_InputTakesKthByte ==
    [][/\ (/\ RunAt("In")
           /\ Len(stdin) >= RunCmd.operand
           /\ ~ReadFails(SubSeq(stdin, 1, RunCmd.operand)))
          => /\ stdin' = SubSeq(stdin, RunCmd.operand + 1, Len(stdin))
             /\ Cell(mem', mem_ptr) = stdin[RunCmd.operand] % U8
             /\ r_pc' = "running"
       /\ (BFAt("IN") /\ istream # <<>> /\ Head(istream) # ReadErr)
          => /\ istream' = Tail(istream)
             /\ Cell(memory', memptr) = Head(istream)
             /\ bf_pc' = "running"]_vars

\* C12 as stated: an input command executed when the input is exhausted, or
\* when the read fails, sets the current cell to 0 and execution continues
\* with the next instruction.
C12_FailedInputStoresZero ==
    [][/\ (RunAt("In") /\ (stdin = <<>> \/ ReadFails(ReadLine(stdin).buf)))
          => /\ Cell(mem', mem_ptr) = 0
             /\ instr_ptr' = instr_ptr + 1
             /\ r_pc' = "running"
       /\ (BFAt("IN") /\ (istream = <<>> \/ Head(istream) = ReadErr))
          => /\ Cell(memory', memptr) = 0
             /\ bf_instr_ptr' = bf_instr_ptr + 1
             /\ bf_pc' = "running"]_vars

\* C13 as stated: an output command executed with a cell value in 128..255
\* aborts the run at that instruction, writing nothing more.
C13_NonAsciiOutputAborts ==
    [][/\ (RunAt("Out") /\ RunCell >= 128)
          => /\ r_pc' = "panic"
             /\ stdout' = stdout
       /\ (BFAt("OUT") /\ BFCell >= 128)
          => /\ bf_pc' = "panic"
             /\ ostream' = ostream]_vars

\* C14 as stated: an output command writes the value of the current cell
\* unchanged, for every value 0..255, and the run goes on; `-.` ends
\* normally having written the single byte 255.
C14_OutputWritesCell ==
    [][/\ RunAt("Out")
          => /\ stdout' = stdout \o Repeat(RunCell, RunCmd.operand)
             /\ r_pc' = "running"
       /\ BFAt("OUT")
          => /\ ostream' = Append(ostream, BFCell)
             /\ bf_pc' = "running"]_vars

(***************************************************************************)
(* SpecMul: n times `+`, then `[>`, m times `+`, `<-]`, in both            *)
(* interpreters, and the add_loop test, which prints the two cells.        *)
(***************************************************************************)
MaxMul == 3

MulProg(n, m) == Repeat("+", n) \o <<"[", ">">> \o Repeat("+", m) \o <<"<", "-", "]">>

AddLoopTest == MulProg(3, 2) \o <<".", ">", ".">>

\* Small n with small m, n at the middle and the end of the cell range, and
\* m around the width of the u8 cast of the collapsed operand.
MulPairs ==
    ((0..MaxMul) \X (0..MaxMul))
        \cup ({127, 128, 255} \X (0..MaxMul))
        \cup ((0..MaxMul) \X {255, 256, 257})

MulSources == {MulProg(q[1], q[2]) : q \in MulPairs} \cup {AddLoopTest}

InitMul == InitRun(MulSources, {<<>>}) \/ InitBF(MulSources, {<<>>})

NextMul ==
    \/ RunAdd
    \/ RunSub
    \/ RunLeft
    \/ RunRight
    \/ RunOut
    \/ RunJmpZero
    \/ RunJmpNonZero
    \/ RunReturn
    \/ BFBegin
    \/ BFIncm
    \/ BFDecm
    \/ BFIncv
    \/ BFDecv
    \/ BFLsrt
    \/ BFLend
    \/ BFOut
    \/ BFBreak

SpecMul == InitMul /\ [][NextMul]_vars /\ WF_vars(NextMul)

\* n and m as written in the source, the index of the `-` that ends the loop
\* body in the instructions of the interpreter that runs, the tape and the
\* bytes written.
MulN == (CHOOSE i \in 1..Len(file) : file[i] = "[") - 1
MulM == (CHOOSE i \in 1..Len(file) : file[i] = "<") - MulN - 3
MulBodyIndex ==
    IF r_pc # "idle"
    THEN CHOOSE i \in 0..(Len(cmds) - 1) : cmds[i + 1].operator = "Sub"
    ELSE MulN + MulM + 3
Tape == IF r_pc # "idle" THEN mem ELSE memory
Written == IF r_pc # "idle" THEN stdout ELSE ostream

\* C15: for n in 0..255 and m >= 0, the multiplication loop terminates with
\* cell 0 at 0 and cell 1 at (n * m) mod 256 after exactly n executions of the
\* loop body; the add_loop test (n = 3, m = 2) writes 0 then 6.
C15_MultiplyLoop ==
    <>[](/\ Finished
         /\ Cell(Tape, 0) = 0
         /\ Cell(Tape, 1) = (MulN * MulM) % U8
         /\ Count(execs, MulBodyIndex) = MulN
         /\ file = AddLoopTest => Written = <<0, 6>>)

\* run_all has finished 255 rounds of a body that adds 3: cell 1 holds
\* 765 mod 256.
C15_Witness ==
    /\ r_pc = "done"
    /\ MulN = 255
    /\ MulM = 3
    /\ Count(execs, MulBodyIndex) = 255
    /\ Cell(mem, 1) = 253
    /\ Cell(mem, 0) = 0

(***************************************************************************)
(* Claims about comments and run collapsing (Spec)                         *)
(***************************************************************************)
\* The source with every byte that is not a command removed (a failing read
\* is not a byte and stays where it is).
StripComments(s) == SelectSeq(s, LAMBDA b : b \in CommandBytes \/ b = EIO)

WithCommentsTest == <<"a", "d", "d", " ", "+", " ", "p", "r", "i", "n", "t", " ", ".">>

\* C16: the bytes that are not commands change nothing: parse_all returns for
\* the file what it returns for the file without them (two equal commands
\* separated by them are still one instruction), both interpreters run the
\* instructions of the file without them, and the with_comments test writes
\* the byte 1 like `+.`.
C16_CommentsIgnored ==
    /\ p_pc = "returned" => result = parse_all(StripComments(file))
    /\ r_pc # "idle" => cmds = parse_all(StripComments(file)).val
    /\ bf_pc \in {"running", "done", "panic"} => code = BFParse(StripComments(file))
    /\ (file = WithCommentsTest /\ Finished) => Written = <<1>>

\* parse_all has returned one Add of operand 2 for two `+` separated by a
\* comment byte.
C16_Witness ==
    /\ p_pc = "returned"
    /\ file = <<"+", "x", "+">>
    /\ result = Ok(<<Cmd("Add", 2)>>)

\* The tokens an instruction list stands for: operand copies of the operator
\* of a simple instruction, the single operator of a bracket.
RECURSIVE Expand(_)
Expand(c) ==
    IF c = <<>> THEN <<>>
    ELSE (IF Head(c).operator \in SimpleOps
          THEN Repeat(Head(c).operator, Head(c).operand)
          ELSE <<Head(c).operator>>) \o Expand(Tail(c))

\* C17: in the list parse_all returns, every simple instruction has an
\* operand of at least 1, no two adjacent instructions carry the same simple
\* operator, and the list expands to exactly the tokens of the lexer.
C17_RunsAreExactAndMaximal ==
    (p_pc = "returned" /\ result.kind = "Ok") =>
        LET c == result.val
        IN /\ \A i \in 1..Len(c) : c[i].operator \in SimpleOps => c[i].operand >= 1
           /\ \A i \in 1..(Len(c) - 1) :
                 c[i].operator \in SimpleOps => c[i + 1].operator # c[i].operator
           /\ Expand(c) = Tokens(file)

\* A returned list in which a run of two or more is ended by a `[` and the
\* last run is ended by the end of the input.
C17_Witness ==
    /\ p_pc = "returned"
    /\ result.kind = "Ok"
    /\ Len(result.val) >= 2
    /\ \E i \in 1..(Len(result.val) - 1) :
          /\ result.val[i].operator \in SimpleOps
          /\ result.val[i].operand >= 2
          /\ result.val[i + 1].operator = "JmpZero"
    /\ result.val[Len(result.val)].operator \in SimpleOps

(***************************************************************************)
(* SpecUnit: run_all executes one Add, Sub, Left, Right or Out of operand  *)
(* n, from a chosen pointer position and cell value.                       *)
(***************************************************************************)
UnitOps == {"Add", "Sub", "Left", "Right", "Out"}
UnitCells == {0, 1, 127, 128, 255}
UnitPtrs == {0, MEM_SIZE \div 2, MEM_SIZE - 1}

\* The list that moves to p, sets the cell to c and then holds the one
\* instruction looked at.
UnitProg(p, c, operator, n) ==
    (IF p = 0 THEN <<>> ELSE <<Cmd("Right", p)>>)
        \o (IF c = 0 THEN <<>> ELSE <<Cmd("Add", c)>>)
        \o <<Cmd(operator, n)>>

UnitProgs ==
    {UnitProg(0, c, operator, n) :
        c \in UnitCells, operator \in {"Add", "Sub"}, n \in 1..(MaxCount + 1)}
        \cup {UnitProg(p, 0, operator, n) :
                p \in UnitPtrs, operator \in {"Left", "Right"}, n \in MoveSamples}
        \cup {UnitProg(0, c, "Out", n) : c \in UnitCells, n \in 1..MaxOut}

InitUnit ==
    /\ file = <<>>
    /\ InitRunCmds(UnitProgs, {<<>>})

NextUnit == RunAdd \/ RunSub \/ RunLeft \/ RunRight \/ RunOut \/ RunReturn

SpecUnit == InitUnit /\ [][NextUnit]_vars

\* What an instruction of run_all can change, beside instr_ptr.
RunState == [mem |-> mem, mem_ptr |-> mem_ptr, stdout |-> stdout, pc |-> r_pc]

\* The arm of run_all's match for an instruction of this operator whose
\* operand is 1; nothing is executed once the run has panicked.
UnitEffect(operator, st) ==
    LET cell == Cell(st.mem, st.mem_ptr)
    IN CASE st.pc # "running" -> st
         [] operator = "Add" ->
              [st EXCEPT !.mem = SetCell(st.mem, st.mem_ptr, WrappingAdd(cell, AsU8(1)))]
         [] operator = "Sub" ->
              [st EXCEPT !.mem = SetCell(st.mem, st.mem_ptr, WrappingSub(cell, AsU8(1)))]
         [] operator = "Left" -> [st EXCEPT !.mem_ptr = MoveLeft(st.mem_ptr, 1)]
         [] operator = "Right" -> [st EXCEPT !.mem_ptr = MoveRight(st.mem_ptr, 1)]
         [] operator = "Out" ->
              IF ~IsAscii(cell) THEN [st EXCEPT !.pc = "panic"]
              ELSE [st EXCEPT !.stdout = st.stdout \o Repeat(cell, 1)]

\* n consecutive instructions of this operator with operand 1, one after the
\* other: the first half of them, then the rest from the state x they leave
\* (bound through a set so that it is computed before the rest is).
RECURSIVE Times(_, _, _)
Times(operator, n, st) ==
    IF n = 0 THEN st
    ELSE IF n = 1 THEN UnitEffect(operator, st)
    ELSE CHOOSE y \in {Times(operator, n - (n \div 2), x) :
                          x \in {Times(operator, n \div 2, st)}} : TRUE

\* C18: in run_all, executing an Add, Sub, Left, Right or Out of operand n
\* changes the tape, the memory pointer and the output exactly as n
\* consecutive instructions of that operator with operand 1 do (for n = 1
\* this ties UnitEffect to the step of run_all itself).
C18_OperandIsRepetition ==
    [][(r_pc = "running" /\ instr_ptr < Len(cmds) /\ RunCmd.operator \in UnitOps)
          => RunState' = Times(RunCmd.operator, RunCmd.operand, RunState)]_vars

\* run_all has executed a Left of more than the tape length from cell 0.
C18_Witness ==
    /\ r_pc = "done"
    /\ cmds = <<Cmd("Left", MEM_SIZE + 1)>>
    /\ mem_ptr = MEM_SIZE - 1
    /\ Count(execs, 0) = 1

(***************************************************************************)
(* Claims about the run of loops (Spec)                                    *)
(***************************************************************************)
\* C19: on a balanced program, a step that executes `[` either falls through
\* to the first instruction of the loop body, and the cell is then non-zero,
\* or lands after the `]`, and the cell is then zero; a step that executes `]`
\* either jumps back to the first instruction of a loop body, with the cell
\* non-zero, or falls through, with the cell zero.  In run_all the `]` and the
\* `[` are the matching ones.
C19_LoopEntryAndExit ==
    [][/\ RunAt("JmpZero") =>
             \/ /\ instr_ptr' = instr_ptr + 1
                /\ Cell(mem', mem_ptr') # 0
             \/ /\ instr_ptr' = MatchClose(cmds, instr_ptr) + 1
                /\ Cell(mem', mem_ptr') = 0
       /\ RunAt("JmpNonZero") =>
             \/ /\ instr_ptr' = MatchOpen(cmds, instr_ptr) + 1
                /\ Cell(mem', mem_ptr') # 0
             \/ /\ instr_ptr' = instr_ptr + 1
                /\ Cell(mem', mem_ptr') = 0
       /\ (BFAt("LSRT") /\ Balanced(Tokens(file)) /\ bf_pc' = "running") =>
             /\ bf_instr_ptr' = bf_instr_ptr + 1 => Cell(memory', memptr') # 0
             /\ bf_instr_ptr' > bf_instr_ptr + 1 =>
                   /\ code[bf_instr_ptr'] = "LEND"
                   /\ Cell(memory', memptr') = 0
       /\ (BFAt("LEND") /\ Balanced(Tokens(file)) /\ bf_pc' = "running") =>
             /\ bf_instr_ptr' = bf_instr_ptr + 1 => Cell(memory', memptr') = 0
             /\ bf_instr_ptr' # bf_instr_ptr + 1 =>
                   /\ code[bf_instr_ptr'] = "LSRT"
                   /\ Cell(memory', memptr') # 0]_vars

\* run_all is at the first instruction of a loop body, back from the `]` of
\* that loop, with a non-zero cell.
C19_Witness ==
    /\ r_pc = "running"
    /\ instr_ptr \in 1..(Len(cmds) - 1)
    /\ cmds[instr_ptr].operator = "JmpZero"
    /\ Count(execs, MatchClose(cmds, instr_ptr - 1)) >= 1
    /\ Count(execs, instr_ptr) = Count(execs, MatchClose(cmds, instr_ptr - 1))
    /\ RunCell # 0

\* C20: while run_all executes a list returned by parse_all, instr_ptr stays
\* in 0..len(cmds) and mem_ptr inside the tape, so every fetch and every cell
\* access is in bounds; the run has returned only with instr_ptr = len(cmds),
\* and with instr_ptr = len(cmds) the only step is the return.
C20_PointersInBounds ==
    /\ [](r_pc # "idle" =>
            /\ instr_ptr \in 0..Len(cmds)
            /\ mem_ptr \in 0..(MEM_SIZE - 1)
            /\ r_pc = "done" => instr_ptr = Len(cmds))
    /\ [][/\ (r_pc = "running" /\ instr_ptr = Len(cmds)) => r_pc' = "done"
          /\ (r_pc = "running" /\ r_pc' = "done") => instr_ptr = Len(cmds)]_vars

\* instr_ptr has reached len(cmds) by the jump of a `[` whose `]`, the last
\* instruction, was never executed.
C20_Witness ==
    /\ r_pc = "running"
    /\ Len(cmds) >= 2
    /\ instr_ptr = Len(cmds)
    /\ cmds[Len(cmds)].operator = "JmpNonZero"
    /\ Count(execs, Len(cmds) - 1) = 0
    /\ Count(execs, MatchOpen(cmds, Len(cmds) - 1)) = 1

====
